---- MODULE Spec2Model ----
(***************************************************************************)
(* Soft-body model of jclucas/softbody: spring topology from mesh faces,   *)
(* rest lengths, the pressure/volume force, the dual-shell hybrid body and *)
(* the attach / step / sync / detach life cycle against the physics world. *)
(*                                                                         *)
(* Numbers.  Coordinates are integers in units of 0.1, so the unit cube    *)
(* has its vertices at +-5.  A length l is kept as its square (THREE's     *)
(* distanceTo is sqrt(distanceToSquared) and sqrt is injective).  A norm   *)
(* is the integer square root, exact on the axis-aligned meshes whose area *)
(* is read.  signedVolume is kept times 6 (units of 1/6000), area times 2  *)
(* (units of 1/200).  Values that JavaScript may turn into Infinity or NaN *)
(* (the pressure force) are records: a finite rational, an infinity with a *)
(* sign, or NaN, with IEEE-754 arithmetic on them.                         *)
(***************************************************************************)
EXTENDS Integers, Sequences, FiniteSets, TLC

VARIABLES
    \* construction and force model (SpecBuild)
    vertices,   \* input vertex array, flat x,y,z per vertex
    faces,      \* input face list, 0-based vertex indices
    options,    \* SoftOptions / HybridOptions handed to the constructor
    held,       \* the same object as the caller holds it after the call
    phase,      \* "input" | "built" | "updated" | "stepped" | "threw"
    obj,        \* the SoftObject built from the input
    hyb,        \* the HybridSoftObject built from the input
    pforce,     \* per body: pressure force accumulated by the last postStep
    measured,   \* what getVolume() and getSurfaceArea() returned, once read
    \* life cycle (Spec)
    world,      \* CANNON.World: bodies, postStep listeners, stepnumber
    heap,       \* the PhysObjects constructed so far, by identity
    objects,    \* Demo.objects
    parts,      \* per particle: position version, pending force contributions
    shapes,     \* per shell: version of the positions held in shape.vertices
    nextFn,     \* identity of the next function object made by bind()
    pc,         \* position inside Demo.update
    log,        \* what the last integration consumed, what ran after removal
    \* MainDemo (SpecMain)
    demo,       \* MainDemo: its geometry object, whether initScene ran, respawns
    \* one spring between two particles (SpecSpring)
    spring,     \* the two particles, the spring's parameters, the forces found
    \* Hand (SpecHand)
    hand        \* the Hand, and the constraints of the world it acts on

bvars == <<vertices, faces, options, held, phase, obj, hyb, pforce, measured>>
lvars == <<world, heap, objects, parts, shapes, nextFn, pc, log>>
mvars == <<demo>>
svars == <<spring>>
hvars == <<hand>>
vars == <<vertices, faces, options, held, phase, obj, hyb, pforce, measured,
          world, heap, objects, parts, shapes, nextFn, pc, log, demo,
          spring, hand>>

-----------------------------------------------------------------------------
(* Bounds *)

MaxFaces == 2

-----------------------------------------------------------------------------
(* Optional values: options?.x ?? d *)

None == <<>>
Some(x) == <<x>>
Coalesce(o, d) == IF o = None THEN d ELSE o[1]

-----------------------------------------------------------------------------
(* Integer helpers *)

Abs(x) == IF x < 0 THEN -x ELSE x
Sgn(x) == IF x < 0 THEN -1 ELSE IF x > 0 THEN 1 ELSE 0

RECURSIVE Gcd(_, _)
Gcd(a, b) == IF b = 0 THEN a ELSE Gcd(b, a % b)

RECURSIVE SqrtSearch(_, _, _)
SqrtSearch(n, lo, hi) ==
    IF lo >= hi THEN lo
    ELSE LET mid == (lo + hi + 1) \div 2
         IN IF mid * mid <= n THEN SqrtSearch(n, mid, hi)
            ELSE SqrtSearch(n, lo, mid - 1)

\* Math.sqrt on a non-negative integer, rounded down
ISqrt(n) == SqrtSearch(n, 0, IF n < 46340 THEN n ELSE 46340)

\* division rounding toward zero
QuotTrunc(a, b) == Sgn(a) * Sgn(b) * (Abs(a) \div Abs(b))

-----------------------------------------------------------------------------
(* Single precision: Float32Array / THREE.Float32BufferAttribute.  A stored   *)
(* value is sign * m / 2^k with 2^23 <= m < 2^24 (or zero); the number        *)
(* written to the buffer is a coordinate in tenths.                          *)

RECURSIVE Pow2(_)
Pow2(k) == IF k = 0 THEN 1 ELSE 2 * Pow2(k - 1)

\* 2^23: a single-precision significand has 24 bits
Float32Half == 8388608

\* a/10 = (q/10) / 2^k, doubled until q/10 is in the 24-bit range [2^23, 2^24)
RECURSIVE Float32Scale(_, _)
Float32Scale(q, k) ==
    IF q >= 10 * Float32Half THEN [q |-> q, k |-> k] ELSE Float32Scale(2 * q, k + 1)

\* q / d rounded to nearest, ties to even
RoundHalfEven(q, d) ==
    LET lo == q \div d
        r == q % d
    IN IF 2 * r < d THEN lo
       ELSE IF 2 * r > d THEN lo + 1
       ELSE IF lo % 2 = 0 THEN lo ELSE lo + 1

\* the single-precision value stored when n tenths is written to the buffer
Float32(n) ==
    IF n = 0 THEN [s |-> 0, m |-> 0, k |-> 0]
    ELSE LET sc == Float32Scale(Abs(n), 0)
             m == RoundHalfEven(sc.q, 10)
         IN IF m = 2 * Float32Half THEN [s |-> Sgn(n), m |-> Float32Half, k |-> sc.k - 1]
            ELSE [s |-> Sgn(n), m |-> m, k |-> sc.k]

\* new Float32Array(numbers)
Float32Array(ns) == [i \in 1..Len(ns) |-> Float32(ns[i])]

\* the stored value read back === the number n tenths
Float32Equals(f, n) == f.s = Sgn(n) /\ 10 * f.m = Abs(n) * Pow2(f.k)

-----------------------------------------------------------------------------
(* JavaScript numbers that may be infinite or NaN *)

Fin(n, d) ==
    LET g == Gcd(Abs(n), Abs(d))
    IN IF n = 0 THEN [k |-> "fin", n |-> 0, d |-> 1]
       ELSE [k |-> "fin", n |-> Sgn(d) * (n \div g), d |-> Abs(d) \div g]
Inf(s) == [k |-> "inf", n |-> s, d |-> 0]
NaN == [k |-> "nan", n |-> 0, d |-> 0]
Zero == Fin(0, 1)

NumMul(a, b) ==
    IF a.k = "nan" \/ b.k = "nan" THEN NaN
    ELSE IF a.k = "inf" \/ b.k = "inf"
         THEN IF a.n = 0 \/ b.n = 0 THEN NaN ELSE Inf(Sgn(a.n) * Sgn(b.n))
         ELSE Fin(a.n * b.n, a.d * b.d)

NumAdd(a, b) ==
    IF a.k = "nan" \/ b.k = "nan" THEN NaN
    ELSE IF a.k = "inf" /\ b.k = "inf" THEN (IF a.n = b.n THEN a ELSE NaN)
    ELSE IF a.k = "inf" THEN a
    ELSE IF b.k = "inf" THEN b
    ELSE IF a.d = b.d THEN Fin(a.n + b.n, a.d)
    ELSE Fin(a.n * b.d + b.n * a.d, a.d * b.d)

\* a / b for finite a and b: x/0 is an infinity, 0/0 is NaN
NumDiv(a, b) ==
    IF b.n = 0 THEN (IF a.n = 0 THEN NaN ELSE Inf(Sgn(a.n)))
    ELSE Fin(a.n * b.d, a.d * b.n)

IsFinite(a) == a.k = "fin"
IsZeroNum(a) == a.k = "fin" /\ a.n = 0

NumVec(v) == <<Fin(v[1], 1), Fin(v[2], 1), Fin(v[3], 1)>>
ZeroVec == <<Zero, Zero, Zero>>
NumVecAdd(u, v) == <<NumAdd(u[1], v[1]), NumAdd(u[2], v[2]), NumAdd(u[3], v[3])>>
NumVecScale(v, s) == <<NumMul(v[1], s), NumMul(v[2], s), NumMul(v[3], s)>>
NumDot(u, v) ==
    NumAdd(NumAdd(NumMul(u[1], v[1]), NumMul(u[2], v[2])), NumMul(u[3], v[3]))

-----------------------------------------------------------------------------
(* Integer vectors: CANNON.Vec3 / THREE.Vector3 *)

vsub(a, b) == <<a[1] - b[1], a[2] - b[2], a[3] - b[3]>>
vadd(a, b) == <<a[1] + b[1], a[2] + b[2], a[3] + b[3]>>
dot(a, b) == a[1] * b[1] + a[2] * b[2] + a[3] * b[3]
cross(a, b) == <<a[2] * b[3] - a[3] * b[2],
                 a[3] * b[1] - a[1] * b[3],
                 a[1] * b[2] - a[2] * b[1]>>
norm(a) == ISqrt(dot(a, a))
isZero(a) == a = <<0, 0, 0>>
distanceToSquared(a, b) == dot(vsub(a, b), vsub(a, b))

\* the concatenation of a sequence of sequences
RECURSIVE Flatten(_)
Flatten(fs) == IF fs = <<>> THEN <<>> ELSE Head(fs) \o Flatten(Tail(fs))

\* vertex i (0-based) of a flat x,y,z array
VertexAt(vs, i) == <<vs[3 * i + 1], vs[3 * i + 2], vs[3 * i + 3]>>
NumVertices(vs) == Len(vs) \div 3

\* does index i name a vertex of the flat array
HasVertex(vs, i) == 0 <= i /\ i < NumVertices(vs)

\* new THREE.Vector3(vertices[3*i], vertices[3*i+1], vertices[3*i+2]): an
\* index outside the array reads undefined, which the constructor turns into 0
Vector3At(vs, i) == IF HasVertex(vs, i) THEN VertexAt(vs, i) ELSE <<0, 0, 0>>

\* a body is referred to by its index in this.bodies; the reference read at
\* an index outside the array (undefined) is the index no array has
Undefined == 0 - 1
bodyAt(vs, i) == IF HasVertex(vs, i) THEN i ELSE Undefined

-----------------------------------------------------------------------------
(* SoftObject constructor: src/unnamed/part_002 (options variant) *)

RECURSIVE triangulateRaw(_)
triangulateRaw(fs) ==
    IF fs = <<>> THEN <<>>
    ELSE LET face == Head(fs)
             tri == IF Len(face) = 4
                    THEN <<face[1], face[2], face[3], face[3], face[4], face[1]>>
                    ELSE face
         IN tri \o triangulateRaw(Tail(fs))

RECURSIVE triangulateFan(_)
triangulateFan(fs) ==
    IF fs = <<>> THEN <<>>
    ELSE LET face == Head(fs)
             tri == IF Len(face) = 3 THEN face
                    ELSE IF Len(face) = 4
                         THEN <<face[1], face[2], face[3], face[1], face[3], face[4]>>
                         ELSE <<>>
         IN tri \o triangulateFan(Tail(fs))

\* faces.forEach: a triangle is pushed unchanged, a quad as [0,1,2] and
\* [2,3,0], any other length pushes nothing
RECURSIVE triangulate(_)
triangulate(fs) ==
    IF fs = <<>> THEN <<>>
    ELSE LET face == Head(fs)
             tri == IF Len(face) = 3 THEN face
                    ELSE IF Len(face) = 4
                         THEN <<face[1], face[2], face[3], face[3], face[4], face[1]>>
                         ELSE <<>>
         IN tri \o triangulate(Tail(fs))

\* face.map((p1, i) => face.slice(i + 1).map(p2 => [p1, p2])).flat()
RECURSIVE allPairs(_)
allPairs(face) ==
    IF Len(face) <= 1 THEN <<>>
    ELSE [j \in 1..(Len(face) - 1) |-> <<face[1], face[j + 1]>>] \o allPairs(Tail(face))

perimeterPairs(face) ==
    <<<<face[1], face[2]>>, <<face[2], face[3]>>, <<face[3], face[4]>>, <<face[4], face[1]>>>>

pairsAllTypes(type, face) == allPairs(face)

\* the pairs of one face: perimeter only for a PRESSURE quad, else all pairs
pairs(type, face) ==
    IF type = "PRESSURE" /\ Len(face) = 4 THEN perimeterPairs(face) ELSE allPairs(face)

\* one spring; restLength is kept squared
Spring(vs, p0, p1) ==
    [bodyA |-> bodyAt(vs, p0), bodyB |-> bodyAt(vs, p1),
     restLength2 |-> distanceToSquared(Vector3At(vs, p0), Vector3At(vs, p1))]

\* pairs.forEach body.  added[p] is modelled by the set of ordered pairs
\* (p, q) with q in added[p]; a pair is skipped when added[pair[0]] includes
\* pair[1], else it is entered under both keys and a spring is pushed.
addPair(acc, pair, vs) ==
    IF <<pair[1], pair[2]>> \in acc.added THEN acc
    ELSE [added |-> acc.added \cup {<<pair[1], pair[2]>>, <<pair[2], pair[1]>>},
          springs |-> Append(acc.springs, Spring(vs, pair[1], pair[2]))]

RECURSIVE addPairs(_, _, _)
addPairs(acc, ps, vs) ==
    IF ps = <<>> THEN acc ELSE addPairs(addPair(acc, Head(ps), vs), Tail(ps), vs)

RECURSIVE addFaces(_, _, _, _)
addFaces(acc, type, fs, vs) ==
    IF fs = <<>> THEN acc
    ELSE addFaces(addPairs(acc, pairs(type, Head(fs)), vs), type, Tail(fs), vs)

springNetwork(type, fs, vs) == addFaces([added |-> {}, springs |-> <<>>], type, fs, vs).springs

\* for (i = 0; i < vertices.length; i += 3): one body per vertex, at the vertex
makeBodies(vs) == [i \in 1..NumVertices(vs) |-> VertexAt(vs, i - 1)]

\* the values after ?? in the constructor.  pressure and stiffness are in
\* units, damping and point_damping in tenths, point_mass and point_radius in
\* hundredths.
Defaults ==
    [pressure |-> 50, stiffness |-> 200, damping |-> 4,
     point_mass |-> 5, point_radius |-> 1, point_damping |-> 3]

\* the same of src/src/ts/soft-object.ts
DefaultsTs ==
    [pressure |-> 1, stiffness |-> 50, damping |-> 2,
     point_mass |-> 5, point_radius |-> 1, point_damping |-> 3]

\* the constructor body, which the two files share but for the defaults
SoftObjectWith(vs, fs, opts, d, variant) ==
    LET type == Coalesce(opts.type, "PRESSURE")
        pressure == IF type = "MASS_SPRING" THEN 0 ELSE Coalesce(opts.pressure, d.pressure)
    IN [variant |-> variant,
        type |-> type,
        pressure |-> pressure,
        stiffness |-> Coalesce(opts.stiffness, d.stiffness),
        damping |-> Coalesce(opts.damping, d.damping),
        point_mass |-> Coalesce(opts.point_mass, d.point_mass),
        point_radius |-> Coalesce(opts.point_radius, d.point_radius),
        point_damping |-> Coalesce(opts.point_damping, d.point_damping),
        color |-> Coalesce(opts.color, "0xff0000"),
        shape |-> [vertices |-> vs, indices |-> triangulate(fs)],
        bodies |-> makeBodies(vs),
        springs |-> springNetwork(type, fs, vs),
        position |-> Float32Array(vs)]

\* new SoftObject(vertices, faces, options) of src/unnamed/part_002
SoftObject(vs, fs, opts) == SoftObjectWith(vs, fs, opts, Defaults, "options")

\* new SoftObject(vertices, faces, options) of src/src/ts/soft-object.ts
SoftObjectTs(vs, fs, opts) == SoftObjectWith(vs, fs, opts, DefaultsTs, "options_ts")

\* SoftObject.update: every body's position is written to the geometry's
\* position attribute (setXYZ) and to shape.vertices
update(o) ==
    [o EXCEPT !.position = Float32Array(Flatten(o.bodies)),
              !.shape.vertices = Flatten(o.bodies)]

-----------------------------------------------------------------------------
(* SoftObject constructor: src/unnamed/part_000 (positional variant) *)

\* the mutation left out: the faces stay as the geometry gave them
toZeroBasedSkipped(fs) == fs

\* faces.forEach(face => face.forEach((index, i, arr) => arr[i] = index - 1))
toZeroBased(fs) == [i \in 1..Len(fs) |-> [j \in 1..Len(fs[i]) |-> fs[i][j] - 1]]

\* new SoftObject(vertices, faces, mass, type) of src/unnamed/part_000: the
\* faces are shifted in place by the constructor itself; type is taken only
\* when truthy, and MASS_SPRING is the enum's 0
SoftObjectFaces(vs, fs1, type) ==
    LET initial == "PRESSURE"
        \* pressure: number = this.type === SoftType.MASS_SPRING ? 0 : 10, a
        \* field initialiser, run before the constructor's body
        pressure == IF initial = "MASS_SPRING" THEN 0 ELSE 10
        \* if (!!type) this.type = type
        t == IF type \in {None, Some("MASS_SPRING")} THEN initial ELSE type[1]
        fs == toZeroBased(fs1)
    IN [variant |-> "faces",
        type |-> t,
        pressure |-> pressure,
        stiffness |-> 50,
        damping |-> 2,
        shape |-> [vertices |-> vs, indices |-> triangulate(fs)],
        bodies |-> makeBodies(vs),
        springs |-> springNetwork(t, fs, vs),
        position |-> Float32Array(vs)]

-----------------------------------------------------------------------------
(* SoftObject constructor: src/unnamed/part_001 (triangle-index variant) *)

\* [[a, b], [b, c], [c, a]].forEach: the endpoints come from the pair, the
\* rest length from vertices a and b for all three springs
triSprings(vs, a, b, c) ==
    LET rest == distanceToSquared(Vector3At(vs, a), Vector3At(vs, b))
    IN <<[bodyA |-> bodyAt(vs, a), bodyB |-> bodyAt(vs, b), restLength2 |-> rest],
         [bodyA |-> bodyAt(vs, b), bodyB |-> bodyAt(vs, c), restLength2 |-> rest],
         [bodyA |-> bodyAt(vs, c), bodyB |-> bodyAt(vs, a), restLength2 |-> rest]>>

RECURSIVE triSpringNetwork(_, _)
triSpringNetwork(vs, idx) ==
    IF Len(idx) < 3 THEN <<>>
    ELSE triSprings(vs, idx[1], idx[2], idx[3])
            \o triSpringNetwork(vs, SubSeq(idx, 4, Len(idx)))

\* indices arrive 1-based ("due to converting from obj") and are shifted first
SoftObjectTri(vs, indices1) ==
    LET indices == [i \in 1..Len(indices1) |-> indices1[i] - 1]
    IN [variant |-> "triangles",
        type |-> "PRESSURE",
        pressure |-> 100,
        shape |-> [vertices |-> vs, indices |-> indices],
        bodies |-> makeBodies(vs),
        springs |-> triSpringNetwork(vs, indices),
        position |-> Float32Array(vs)]

-----------------------------------------------------------------------------
(* Volume, area and the pressure force: src/unnamed/part_002 postStep ... area *)

NumTriangles(o) == Len(o.shape.indices) \div 3

\* shape.getTriangleVertices(i, a, b, c), i 0-based: read from shape.vertices
getTriangleVertices(o, i) ==
    <<VertexAt(o.shape.vertices, o.shape.indices[3 * i + 1]),
      VertexAt(o.shape.vertices, o.shape.indices[3 * i + 2]),
      VertexAt(o.shape.vertices, o.shape.indices[3 * i + 3])>>

signedVolumeThird(a, b, c) == 2 * dot(a, cross(b, c))

\* a.dot(b.cross(c)) / 6, kept times 6
signedVolume(a, b, c) == dot(a, cross(b, c))

\* ab.cross(ac).norm() / 2, kept times 2
area(a, b, c) == norm(cross(vsub(b, a), vsub(c, a)))

RECURSIVE sumSignedVolume(_, _)
sumSignedVolume(o, n) ==
    IF n = 0 THEN 0
    ELSE LET t == getTriangleVertices(o, n - 1)
         IN sumSignedVolume(o, n - 1) + signedVolume(t[1], t[2], t[3])

RECURSIVE sumArea(_, _)
sumArea(o, n) ==
    IF n = 0 THEN 0
    ELSE LET t == getTriangleVertices(o, n - 1)
         IN sumArea(o, n - 1) + area(t[1], t[2], t[3])

\* the sum returned without Math.abs
getVolumeSigned(o) == sumSignedVolume(o, NumTriangles(o))

\* Math.abs(volume), in units of 1/6000
getVolume(o) == Abs(sumSignedVolume(o, NumTriangles(o)))

\* Math.abs(surfaceArea), in units of 1/200
getSurfaceArea(o) == Abs(sumArea(o, NumTriangles(o)))

VolumeUnit == 6 * 10 * 10 * 10
AreaUnit == 2 * 10 * 10

\* do all triangle indices name a vertex of the shape
indicesInRange(o) ==
    \A k \in 1..Len(o.shape.indices) : HasVertex(o.shape.vertices, o.shape.indices[k])

computeNormalStandard(va, vb, vc) == cross(vsub(vb, va), vsub(vc, va))

\* CANNON.Trimesh.computeNormal: ab = vb - va, cb = vc - vb, target = cb x ab,
\* normalised unless zero.  The value here is the vector before normalisation;
\* its length is twice the triangle's area.
computeNormal(va, vb, vc) == cross(vsub(vc, vb), vsub(vb, va))

\* force = -1 / this.getVolume() * this.pressure
volumeForceScalar(o) ==
    NumMul(NumDiv(Fin(-1, 1), Fin(getVolume(o), VolumeUnit)), Fin(o.pressure, 1))

\* the triangle's vector shared out between its three vertices
triangleForceThird(o, i, force) ==
    LET t == getTriangleVertices(o, i)
        n == computeNormal(t[1], t[2], t[3])
    IN NumVecScale(<<Fin(n[1], 3 * AreaUnit), Fin(n[2], 3 * AreaUnit),
                     Fin(n[3], 3 * AreaUnit)>>, force)

\* normal.scale(force * tri_area): the unit normal times the area is half the
\* cross product (zero for a degenerate triangle, whose normal stays zero), so
\* each component is force * target[i] / 2, with IEEE rules when force is not
\* finite (0 * Infinity = NaN)
triangleForce(o, i, force) ==
    LET t == getTriangleVertices(o, i)
        n == computeNormal(t[1], t[2], t[3])
    IN NumVecScale(<<Fin(n[1], AreaUnit), Fin(n[2], AreaUnit), Fin(n[3], AreaUnit)>>, force)

\* bodies[idx].applyForce(v, bodies[idx].position): body.force += v
applyForce(f, idx, v) == [f EXCEPT ![idx + 1] = NumVecAdd(@, v)]

RECURSIVE applyTriangles(_, _, _, _)
applyTriangles(o, f, force, n) ==
    IF n = 0 THEN f
    ELSE LET g == applyTriangles(o, f, force, n - 1)
             i == n - 1
             v == triangleForce(o, i, force)
         IN applyForce(applyForce(applyForce(g, o.shape.indices[3 * i + 1], v),
                                  o.shape.indices[3 * i + 2], v),
                       o.shape.indices[3 * i + 3], v)

\* the "apply volume force" half of postStep: the force each body receives
volumeForce(o) ==
    applyTriangles(o, [i \in 1..Len(o.bodies) |-> ZeroVec], volumeForceScalar(o),
                   NumTriangles(o))

\* position (1-based) in the triangle buffer of the first index that names no
\* vertex
firstMissing(o) ==
    CHOOSE k \in 1..Len(o.shape.indices) :
        /\ ~HasVertex(o.shape.vertices, o.shape.indices[k])
        /\ \A j \in 1..(k - 1) : HasVertex(o.shape.vertices, o.shape.indices[j])

\* postStep on a shape with an index that names no vertex: getVolume() is NaN
\* (a missing vertex reads as NaN), so force is NaN and every vector applied
\* is NaN, until this.bodies[idx] is undefined and applyForce on it throws
volumeForceUntilThrow(o) ==
    [i \in 1..Len(o.bodies) |->
        IF \E j \in 1..(firstMissing(o) - 1) : o.shape.indices[j] = i - 1
        THEN <<NaN, NaN, NaN>> ELSE ZeroVec]

-----------------------------------------------------------------------------
(* HybridSoftObject constructor: src/src/ts/hybrid-soft-object.ts 35-129 *)

NormalScale == 10 * 10 * 10

\* THREE computeVertexNormals on an indexed geometry: every triangle adds
\* (pC - pB) x (pA - pB) to its three vertices
RECURSIVE accumulateNormals(_, _, _)
accumulateNormals(vs, idx, acc) ==
    IF Len(idx) < 3 THEN acc
    ELSE LET pA == VertexAt(vs, idx[1])
             pB == VertexAt(vs, idx[2])
             pC == VertexAt(vs, idx[3])
             cb == cross(vsub(pC, pB), vsub(pA, pB))
             a1 == [acc EXCEPT ![idx[1] + 1] = vadd(@, cb)]
             a2 == [a1 EXCEPT ![idx[2] + 1] = vadd(@, cb)]
             a3 == [a2 EXCEPT ![idx[3] + 1] = vadd(@, cb)]
         IN accumulateNormals(vs, SubSeq(idx, 4, Len(idx)), a3)

\* normalizeNormals: divide by the length (or by 1 when it is zero); the unit
\* vector is kept in thousandths
normalize(v) ==
    LET l == norm(v)
    IN IF l = 0 THEN <<0, 0, 0>>
       ELSE <<QuotTrunc(v[1] * NormalScale, l), QuotTrunc(v[2] * NormalScale, l),
              QuotTrunc(v[3] * NormalScale, l)>>

computeVertexNormals(vs, idx) ==
    LET acc == accumulateNormals(vs, idx, [i \in 1..NumVertices(vs) |-> <<0, 0, 0>>])
    IN [i \in 1..NumVertices(vs) |-> normalize(acc[i])]

\* vertices_inner: x - this.offset * normal_x, per coordinate
innerVertices(vs, normals, offset) ==
    [k \in 1..Len(vs) |->
        vs[k] - QuotTrunc(offset * normals[((k - 1) \div 3) + 1][((k - 1) % 3) + 1],
                          NormalScale)]

radialSpringsToFirst(inner, outer) ==
    [i \in 1..Len(inner.bodies) |->
        [bodyA |-> <<"inner", i - 1>>, bodyB |-> <<"outer", 0>>,
         restLength2 |-> distanceToSquared(inner.bodies[i], outer.bodies[1])]]

\* inner_body.bodies.forEach((body_a, i) => ...): one spring per inner body,
\* to outer_body.bodies[i], rest length the distance between the two positions
radialSprings(inner, outer) ==
    [i \in 1..Len(inner.bodies) |->
        [bodyA |-> <<"inner", i - 1>>, bodyB |-> <<"outer", i - 1>>,
         restLength2 |-> distanceToSquared(inner.bodies[i], outer.bodies[i])]]

\* a SoftOptions object with type and pressure given or not, nothing else
BaseOptions(t, p) ==
    [type |-> t, pressure |-> p, stiffness |-> None, damping |-> None,
     point_mass |-> None, point_radius |-> None, point_damping |-> None,
     color |-> None]

NoOptions == BaseOptions(None, None)

\* the options object after the constructor ran: inner_options and
\* outer_options are the caller's objects when given (?? {} otherwise), and
\* type and color are assigned on them
hybridOptionsAfter(hopts) ==
    [hopts EXCEPT
        !.inner_options = IF @ = None THEN None
                          ELSE Some([@[1] EXCEPT !.type = Some("PRESSURE"),
                                                 !.color = Some("0x0000ff")]),
        !.outer_options = IF @ = None THEN None
                          ELSE Some([@[1] EXCEPT !.type = Some("PRESSURE")])]

HybridSoftObject(vs, fs, hopts) ==
    LET offset == Coalesce(hopts.offset, 2)
        normals == computeVertexNormals(vs, triangulate(fs))
        vertices_inner == innerVertices(vs, normals, offset)
        inner_options == [Coalesce(hopts.inner_options, NoOptions)
                            EXCEPT !.type = Some("PRESSURE"),
                                   !.color = Some("0x0000ff")]
        outer_options == [Coalesce(hopts.outer_options, NoOptions)
                            EXCEPT !.type = Some("PRESSURE")]
        inner_body == SoftObject(vertices_inner, fs, inner_options)
        outer_body == SoftObject(vs, fs, outer_options)
    IN [variant |-> "hybrid",
        offset |-> offset,
        inner_body |-> inner_body,
        outer_body |-> outer_body,
        springs |-> radialSprings(inner_body, outer_body)]

-----------------------------------------------------------------------------
(* Input geometry *)

\* four points in general position, every edge of a different length
PoolVertices == <<1, 1, 1,  5, 1, 1,  1, 7, 1,  1, 1, 9>>

\* faces over the pool's four vertices: both windings, shared edges,
\* degenerate faces that name a vertex twice, a face that names a fifth
\* vertex, and faces of two and of five entries
FacePool ==
    { <<0, 1, 2>>, <<2, 1, 0>>, <<0, 1, 3>>,
      <<0, 0, 1>>, <<0, 0, 1, 1>>,
      <<0, 1, 4>>, <<0, 1>>, <<0, 1, 2, 3, 1>>,
      <<0, 1, 2, 3>>, <<3, 2, 1, 0>> }

FaceLists == UNION { [1..n -> FacePool] : n \in 1..MaxFaces }

TetraFaces == << <<0, 2, 1>>, <<0, 1, 3>>, <<0, 3, 2>>, <<1, 2, 3>> >>

\* the unit cube, vertices at +-0.5, six quads wound counter-clockwise seen
\* from outside
CubeVertices ==
    << -5, -5, -5,   5, -5, -5,   5, 5, -5,   -5, 5, -5,
       -5, -5, 5,    5, -5, 5,    5, 5, 5,    -5, 5, 5 >>
CubeFaces ==
    << <<0, 3, 2, 1>>, <<4, 5, 6, 7>>, <<0, 1, 5, 4>>,
       <<2, 3, 7, 6>>, <<0, 4, 7, 3>>, <<1, 2, 6, 5>> >>

\* a square pyramid: one quad and four triangles
PyramidVertices == << -3, -3, 0,   3, -3, 0,   3, 3, 0,   -3, 3, 0,   0, 0, 4 >>
PyramidFaces ==
    << <<0, 3, 2, 1>>, <<0, 1, 4>>, <<1, 2, 4>>, <<2, 3, 4>>, <<3, 0, 4>> >>

\* a flat square through the origin, both sides
FlatVertices == << 0, 0, 0,   4, 0, 0,   4, 4, 0,   0, 4, 0 >>
FlatFaces == << <<0, 1, 2, 3>>, <<3, 2, 1, 0>> >>

Reverse(seq) == [i \in 1..Len(seq) |-> seq[Len(seq) + 1 - i]]
ReverseAll(fs) == [i \in 1..Len(fs) |-> Reverse(fs[i])]

Mesh(vs, fs) == [vertices |-> vs, faces |-> fs]

\* closed convex meshes, in both windings
ConvexClosed ==
    { Mesh(CubeVertices, CubeFaces), Mesh(CubeVertices, ReverseAll(CubeFaces)),
      Mesh(PoolVertices, TetraFaces), Mesh(PoolVertices, ReverseAll(TetraFaces)),
      Mesh(PyramidVertices, PyramidFaces), Mesh(PyramidVertices, ReverseAll(PyramidFaces)) }

Inputs ==
    ConvexClosed \cup { Mesh(FlatVertices, FlatFaces) }
        \cup { Mesh(PoolVertices, fs) : fs \in FaceLists }

SoftTypes == {"MASS_SPRING", "PRESSURE", "HYBRID"}

\* every type with every pressure, and each other option supplied alone
OptionSets ==
    {BaseOptions(t, p) : t \in {None} \cup {Some(x) : x \in SoftTypes},
                         p \in {None, Some(0), Some(50)}}
        \cup {[NoOptions EXCEPT ![f] = Some(7)] :
                f \in {"stiffness", "damping", "point_mass", "point_radius", "point_damping"}}

HybridOptionSets ==
    [offset : {None, Some(0), Some(5)},
     inner_options : {None, Some(BaseOptions(Some("MASS_SPRING"), Some(0)))},
     outer_options : {None, Some(BaseOptions(None, Some(50)))}]

-----------------------------------------------------------------------------
(* Life cycle state that the construction specification leaves alone *)

NoObject == [variant |-> "none"]

LifeInit ==
    /\ world = [bodies |-> {}, listeners |-> <<>>, stepnumber |-> 0]
    /\ heap = <<>>
    /\ objects = <<>>
    /\ parts = <<>>
    /\ shapes = <<>>
    /\ nextFn = 0
    /\ pc = "idle"
    /\ log = [status |-> <<>>, call |-> 0, integrated |-> {}, ranDetached |-> {},
              frame |-> <<>>]

\* no spring under study, no Hand
NoSpring == [stage |-> "none"]
NoHand == [variant |-> "none"]

\* no MainDemo
NoDemo == [variant |-> "none", scene |-> FALSE, respawns |-> 0, geometry |-> [vertices |-> <<>>, faces |-> <<>>]]

-----------------------------------------------------------------------------
(* Construction and one force evaluation *)

facesInRange(vs, fs) ==
    \A i \in 1..Len(fs) : \A j \in 1..Len(fs[i]) : HasVertex(vs, fs[i][j])

BuildInit ==
    /\ \E m \in Inputs : vertices = m.vertices /\ faces = m.faces
    /\ options = NoOptions
    /\ held = NoOptions
    /\ phase = "input"
    /\ obj = NoObject
    /\ hyb = NoObject
    /\ pforce = <<>>
    /\ measured = None
    /\ LifeInit
    /\ demo = NoDemo
    /\ spring = NoSpring
    /\ hand = NoHand

\* new SoftObject(vertices, faces, options)
Construct ==
    /\ phase = "input"
    /\ \E o \in OptionSets :
          /\ options' = o
          /\ held' = o
          /\ obj' = SoftObject(vertices, faces, o)
    /\ phase' = "built"
    /\ UNCHANGED <<vertices, faces, hyb, pforce, measured>>
    /\ UNCHANGED <<lvars, mvars, svars, hvars>>

\* new SoftObject(vertices, faces, options) of src/src/ts/soft-object.ts
ConstructTs ==
    /\ phase = "input"
    /\ \E o \in OptionSets :
          /\ options' = o
          /\ held' = o
          /\ obj' = SoftObjectTs(vertices, faces, o)
    /\ phase' = "built"
    /\ UNCHANGED <<vertices, faces, hyb, pforce, measured>>
    /\ UNCHANGED <<lvars, mvars, svars, hvars>>

AllTriangles(fs) == \A i \in 1..Len(fs) : Len(fs[i]) = 3

\* new SoftObject(vertices, indices, mass) of the triangle-index variant, on
\* the 1-based index buffer of an all-triangle mesh
ConstructTri ==
    /\ phase = "input"
    /\ AllTriangles(faces)
    /\ LET flat == Flatten(faces)
       IN obj' = SoftObjectTri(vertices, [i \in 1..Len(flat) |-> flat[i] + 1])
    /\ phase' = "built"
    /\ UNCHANGED <<vertices, faces, options, held, hyb, pforce, measured>>
    /\ UNCHANGED <<lvars, mvars, svars, hvars>>

\* new SoftObject(vertices, faces, mass, type) of the positional variant, on
\* the 1-based copy of the faces; options records the type argument
ConstructFaces ==
    /\ phase = "input"
    /\ \E type \in {None} \cup {Some(x) : x \in SoftTypes} :
          /\ obj' = SoftObjectFaces(vertices,
                        [i \in 1..Len(faces) |->
                            [j \in 1..Len(faces[i]) |-> faces[i][j] + 1]], type)
          /\ options' = BaseOptions(type, None)
          /\ held' = BaseOptions(type, None)
    /\ phase' = "built"
    /\ UNCHANGED <<vertices, faces, hyb, pforce, measured>>
    /\ UNCHANGED <<lvars, mvars, svars, hvars>>

\* new HybridSoftObject(vertices, faces, options), taken on the meshes whose
\* faces name vertices of the array
ConstructHybrid ==
    /\ phase = "input"
    /\ facesInRange(vertices, faces)
    /\ \E h \in HybridOptionSets :
          /\ options' = h
          /\ held' = hybridOptionsAfter(h)
          /\ hyb' = HybridSoftObject(vertices, faces, h)
    /\ phase' = "built"
    /\ UNCHANGED <<vertices, faces, obj, pforce, measured>>
    /\ UNCHANGED <<lvars, mvars, svars, hvars>>

\* SoftObject.postStep on the freshly built body: the volume force, or the
\* TypeError of applyForce on a body that does not exist
PostStepForce ==
    /\ phase = "built"
    /\ obj.variant = "options"
    /\ IF indicesInRange(obj)
       THEN pforce' = volumeForce(obj) /\ phase' = "stepped"
       ELSE pforce' = volumeForceUntilThrow(obj) /\ phase' = "threw"
    /\ UNCHANGED <<vertices, faces, options, held, obj, hyb, measured>>
    /\ UNCHANGED <<lvars, mvars, svars, hvars>>

\* getVolume() and getSurfaceArea() read on the built body; a triangle with
\* a missing vertex makes both sums NaN
Measure ==
    /\ phase = "built"
    /\ obj.variant = "options"
    /\ measured = None
    /\ measured' = IF indicesInRange(obj)
                    THEN Some([volume |-> getVolume(obj),
                               surfaceArea |-> getSurfaceArea(obj)])
                    ELSE Some([volume |-> NaN, surfaceArea |-> NaN])
    /\ UNCHANGED <<vertices, faces, options, held, phase, obj, hyb, pforce>>
    /\ UNCHANGED <<lvars, mvars, svars, hvars>>

\* obj.update() with no world step taken in between
Update ==
    /\ phase = "built"
    /\ obj.variant = "options"
    /\ obj' = update(obj)
    /\ phase' = "updated"
    /\ UNCHANGED <<vertices, faces, options, held, hyb, pforce, measured>>
    /\ UNCHANGED <<lvars, mvars, svars, hvars>>

\* HybridSoftObject.update: inner_body.update(); outer_body.update()
hybridUpdate(h) ==
    [h EXCEPT !.inner_body = update(@), !.outer_body = update(@)]

\* hybrid.update() with no world step taken in between
UpdateHybrid ==
    /\ phase = "built"
    /\ hyb.variant = "hybrid"
    /\ hyb' = hybridUpdate(hyb)
    /\ phase' = "updated"
    /\ UNCHANGED <<vertices, faces, options, held, obj, pforce, measured>>
    /\ UNCHANGED <<lvars, mvars, svars, hvars>>

BuildNext ==
    \/ Construct \/ ConstructTs \/ ConstructTri \/ ConstructFaces \/ ConstructHybrid
    \/ PostStepForce \/ Measure \/ Update \/ UpdateHybrid

SpecBuild == BuildInit /\ [][BuildNext]_vars

-----------------------------------------------------------------------------
(* Life cycle: Demo.add / remove / update, addSelf / removeSelf / postStep /   *)
(* update of the bodies, and the CANNON.World they are attached to.           *)
(*                                                                           *)
(* The integrator is external, so a position is modelled by its version (the *)
(* number of the world step that last integrated it) and a force by the list *)
(* of contributions added to body.force, each tagged with the world step in  *)
(* which it was computed and with whether the positions it was computed from *)
(* were the bodies' current ones.                                            *)

MaxObjects == 2
MaxSteps == 4
MaxFn == 6

\* the mesh of every body of the life cycle: one triangle
LifeVertices == SubSeq(PoolVertices, 1, 9)
LifeFaces == << <<0, 1, 2>> >>
LifeSoft == SoftObject(LifeVertices, LifeFaces, NoOptions)
LifeHybrid ==
    HybridSoftObject(LifeVertices, LifeFaces,
                     [offset |-> None, inner_options |-> None, outer_options |-> None])

Kinds == {"soft", "hybrid"}
ShellsOf(kind) == IF kind = "soft" THEN <<"self">> ELSE <<"inner", "outer">>
ShellObject(shell) ==
    IF shell = "self" THEN LifeSoft
    ELSE IF shell = "inner" THEN LifeHybrid.inner_body ELSE LifeHybrid.outer_body

\* particle i of shell sh of object id
Part(id, sh, i) == <<id, sh, i>>
ShellParts(id, sh) == {Part(id, sh, i - 1) : i \in 1..Len(ShellObject(sh).bodies)}
ObjectParts(id) ==
    UNION {ShellParts(id, ShellsOf(heap[id])[k]) : k \in 1..Len(ShellsOf(heap[id]))}

Range(f) == {f[x] : x \in DOMAIN f}

\* EventTarget.addEventListener: pushed unless that very function is listed
addEventListener(ls, l) ==
    IF \E i \in 1..Len(ls) : ls[i].fn = l.fn THEN ls ELSE Append(ls, l)

\* EventTarget.removeEventListener: splices the first entry that is that very
\* function, if any
removeEventListener(ls, fn) ==
    IF \E i \in 1..Len(ls) : ls[i].fn = fn
    THEN LET at == CHOOSE i \in 1..Len(ls) :
                      ls[i].fn = fn /\ \A j \in 1..(i - 1) : ls[j].fn # fn
         IN SubSeq(ls, 1, at - 1) \o SubSeq(ls, at + 1, Len(ls))
    ELSE ls

\* this.postStep.bind(this): a new function object on every call; n is the
\* number of functions made so far
bind(owner, n) == n

\* SoftObject.addSelf: world.addBody for every body, then
\* world.addEventListener('postStep', this.postStep.bind(this))
shellAddSelf(w, id, sh, n) ==
    [w EXCEPT !.bodies = @ \cup ShellParts(id, sh),
              !.listeners = addEventListener(@, [fn |-> bind(<<id, sh>>, n),
                                                 owner |-> <<id, sh>>])]

\* removeSelf that leaves the bodies in the world
shellRemoveSelfKeepBodies(w, id, sh, n) ==
    [w EXCEPT !.listeners = removeEventListener(@, bind(<<id, sh>>, n))]

\* SoftObject.removeSelf: world.removeEventListener('postStep',
\* this.postStep.bind(this)), then world.remove for every body
shellRemoveSelf(w, id, sh, n) ==
    [w EXCEPT !.listeners = removeEventListener(@, bind(<<id, sh>>, n)),
              !.bodies = @ \ ShellParts(id, sh)]

\* addSelf of a SoftObject, or of a HybridSoftObject: inner shell, outer
\* shell, then the hybrid's own postStep listener
addSelfOf(kind, w, id, n) ==
    IF kind = "soft" THEN shellAddSelf(w, id, "self", n)
    ELSE LET w1 == shellAddSelf(w, id, "inner", n)
             w2 == shellAddSelf(w1, id, "outer", n + 1)
         IN [w2 EXCEPT !.listeners =
                addEventListener(@, [fn |-> bind(<<id, "hybrid">>, n + 2),
                                     owner |-> <<id, "hybrid">>])]

addSelf(w, id, n) == addSelfOf(heap[id], w, id, n)

\* removeSelf of a SoftObject, or of a HybridSoftObject: its own listener,
\* then the inner shell, then the outer shell
removeSelf(w, id, n) ==
    IF heap[id] = "soft" THEN shellRemoveSelf(w, id, "self", n)
    ELSE LET w0 == [w EXCEPT !.listeners =
                        removeEventListener(@, bind(<<id, "hybrid">>, n))]
             w1 == shellRemoveSelf(w0, id, "inner", n + 1)
         IN shellRemoveSelf(w1, id, "outer", n + 2)

BindsOf(id) == IF heap[id] = "soft" THEN 1 ELSE 3

\* body.force += f
addForce(ps, p, c) == [ps EXCEPT ![p].force = Append(@, c)]

Contribution(kind, owner, fresh) ==
    [kind |-> kind, owner |-> owner, computedIn |-> world.stepnumber + 1, fresh |-> fresh]

\* spring.applyForce() for the springs of a list, in order: reads the two
\* bodies' positions and adds to the force of both
RECURSIVE applySprings(_, _, _, _, _)
applySprings(ps, springs, owner, pa, pb) ==
    IF springs = <<>> THEN ps
    ELSE LET sp == Head(springs)
             c == Contribution("spring", owner, TRUE)
         IN applySprings(addForce(addForce(ps, pa[sp.bodyA], c), pb[sp.bodyB], c),
                         Tail(springs), owner, pa, pb)

\* the volume force loop of SoftObject.postStep: the triangle is read from
\* shape.vertices, which hold the positions copied by the last update()
RECURSIVE applyVolume(_, _, _, _, _)
applyVolume(ps, sh, id, shell, n) ==
    IF n = 0 THEN ps
    ELSE LET g == applyVolume(ps, sh, id, shell, n - 1)
             o == ShellObject(shell)
             tri == {Part(id, shell, o.shape.indices[3 * (n - 1) + k]) : k \in 1..3}
             c == Contribution("pressure", <<id, shell>>,
                               \A p \in tri : sh[p] = ps[p].pos)
         IN addForce(addForce(addForce(g,
                Part(id, shell, o.shape.indices[3 * (n - 1) + 1]), c),
                Part(id, shell, o.shape.indices[3 * (n - 1) + 2]), c),
                Part(id, shell, o.shape.indices[3 * (n - 1) + 3]), c)

\* postStep of the listener's owner: a shell's structural springs and volume
\* force, or the hybrid's coupling springs
postStep(ps, sh, owner) ==
    LET id == owner[1]
    IN IF owner[2] = "hybrid"
       THEN applySprings(ps, LifeHybrid.springs, owner,
                         [e \in Range([i \in 1..Len(LifeHybrid.springs) |->
                                          LifeHybrid.springs[i].bodyA])
                            |-> Part(id, e[1], e[2])],
                         [e \in Range([i \in 1..Len(LifeHybrid.springs) |->
                                          LifeHybrid.springs[i].bodyB])
                            |-> Part(id, e[1], e[2])])
       ELSE LET o == ShellObject(owner[2])
                own == [i \in 0..(Len(o.bodies) - 1) |-> Part(id, owner[2], i)]
            IN applyVolume(applySprings(ps, o.springs, owner, own, own),
                           sh, id, owner[2], NumTriangles(o))

\* dispatchEvent(postStep): every listener, in the order it was added
RECURSIVE dispatchPostStep(_, _, _)
dispatchPostStep(ps, sh, ls) ==
    IF ls = <<>> THEN ps
    ELSE dispatchPostStep(postStep(ps, sh, Head(ls).owner), sh, Tail(ls))

Gravity == [kind |-> "gravity", owner |-> <<0, "world">>,
            computedIn |-> world.stepnumber + 1, fresh |-> TRUE]

\* World.step -> internalStep, for the bodies in the world: gravity is added
\* to body.force, every body is integrated with its body.force, and
\* clearForces() empties body.force
integrateAll(ps, bodies) ==
    [p \in DOMAIN ps |->
        IF p \in bodies THEN [pos |-> world.stepnumber + 1, force |-> <<>>] ELSE ps[p]]

\* what that integration used: per body, gravity and the pending body.force
consumedBy(ps, bodies) ==
    {[part |-> p, c |-> Gravity, call |-> world.stepnumber + 1] : p \in bodies}
        \cup UNION {{[part |-> p, c |-> ps[p].force[i], call |-> world.stepnumber + 1] :
                        i \in 1..Len(ps[p].force)} : p \in bodies}

\* SoftObject.update / HybridSoftObject.update: every body's position is
\* copied into the mesh and into shape.vertices
RECURSIVE updateAll(_, _)
updateAll(sh, objs) ==
    IF objs = <<>> THEN sh
    ELSE updateAll([p \in DOMAIN sh |->
                        IF p \in ObjectParts(Head(objs)) THEN parts[p].pos ELSE sh[p]],
                   Tail(objs))

PartsOfKind(id, kind) ==
    UNION {{Part(id, ShellsOf(kind)[k], i - 1) :
                i \in 1..Len(ShellObject(ShellsOf(kind)[k]).bodies)} :
           k \in 1..Len(ShellsOf(kind))}

Extend(f, S, v) == [x \in DOMAIN f \cup S |-> IF x \in DOMAIN f THEN f[x] ELSE v]

LifeStart ==
    /\ vertices = LifeVertices
    /\ faces = LifeFaces
    /\ options = NoOptions
    /\ held = NoOptions
    /\ phase = "life"
    /\ obj = NoObject
    /\ hyb = NoObject
    /\ pforce = <<>>
    /\ measured = None
    /\ LifeInit
    /\ demo = NoDemo
    /\ spring = NoSpring
    /\ hand = NoHand

\* new SoftObject(...) or new HybridSoftObject(...)
New(kind) ==
    /\ pc = "idle"
    /\ Len(heap) < MaxObjects
    /\ heap' = Append(heap, kind)
    /\ parts' = Extend(parts, PartsOfKind(Len(heap) + 1, kind), [pos |-> 0, force |-> <<>>])
    /\ shapes' = Extend(shapes, PartsOfKind(Len(heap) + 1, kind), 0)
    /\ log' = [log EXCEPT !.status = Append(@, "new")]
    /\ UNCHANGED <<world, objects, nextFn, pc>>
    /\ UNCHANGED <<bvars, mvars, svars, hvars>>

\* Demo.add(obj): obj.addSelf(scene, world); objects.push(obj)
DemoAdd(id) ==
    /\ pc = "idle"
    /\ id \in 1..Len(heap)
    /\ id \notin Range(objects)
    /\ nextFn + BindsOf(id) <= MaxFn
    /\ world' = addSelf(world, id, nextFn)
    /\ nextFn' = nextFn + BindsOf(id)
    /\ objects' = Append(objects, id)
    /\ log' = [log EXCEPT !.status[id] = "attached"]
    /\ UNCHANGED <<heap, parts, shapes, pc>>
    /\ UNCHANGED <<bvars, mvars, svars, hvars>>

\* Demo.remove(index): objects[index].removeSelf(scene, world); splice
DemoRemove(index) ==
    /\ pc = "idle"
    /\ index \in 1..Len(objects)
    /\ nextFn + BindsOf(objects[index]) <= MaxFn
    /\ world' = removeSelf(world, objects[index], nextFn)
    /\ nextFn' = nextFn + BindsOf(objects[index])
    /\ objects' = SubSeq(objects, 1, index - 1) \o SubSeq(objects, index + 1, Len(objects))
    /\ log' = [log EXCEPT !.status[objects[index]] = "removed"]
    /\ UNCHANGED <<heap, parts, shapes, pc>>
    /\ UNCHANGED <<bvars, mvars, svars, hvars>>

\* obj.removeSelf(scene, world) on a body the demo does not list: a second
\* removal, or a removal without an addition
RemoveSelf(id) ==
    /\ pc = "idle"
    /\ id \in 1..Len(heap)
    /\ id \notin Range(objects)
    /\ nextFn + BindsOf(id) <= MaxFn
    /\ world' = removeSelf(world, id, nextFn)
    /\ nextFn' = nextFn + BindsOf(id)
    /\ log' = [log EXCEPT !.status[id] = "removed"]
    /\ UNCHANGED <<heap, objects, parts, shapes, pc>>
    /\ UNCHANGED <<bvars, mvars, svars, hvars>>

\* const steps = 2
Steps == 2

\* 1 / 60 / steps, in seconds
TimeStep == NumDiv(NumDiv(Fin(1, 1), Fin(60, 1)), Fin(Steps, 1))

\* the calls of one Demo.update, as the log keeps them: its entry with the
\* objects registered then, each world.step(dt), each objects[i].update()
FrameBegin(objs) == [e |-> "frame", objects |-> objs]
StepCall == [e |-> "step", dt |-> TimeStep]

\* the loop run from the last object down to the first
updateCallsReversed(objs) ==
    [i \in 1..Len(objs) |-> [e |-> "update", id |-> objs[Len(objs) + 1 - i]]]

\* for (let i = 0; i < this.objects.length; i++) this.objects[i].update()
updateCalls(objs) == [i \in 1..Len(objs) |-> [e |-> "update", id |-> objs[i]]]

\* Demo.update, one of its two substeps: this.world.step(1 / 60 / steps).
\* Inside the step: gravity, integration, clearForces, stepnumber += 1, then
\* the postStep event reaches every listener.
WorldStep ==
    /\ pc \in {"idle", "step1"}
    /\ pc = "idle" => world.stepnumber + 2 <= MaxSteps
    /\ parts' = dispatchPostStep(integrateAll(parts, world.bodies), shapes, world.listeners)
    /\ world' = [world EXCEPT !.stepnumber = @ + 1]
    /\ log' = [log EXCEPT
                 !.call = world.stepnumber + 1,
                 !.frame = IF pc = "idle" THEN <<FrameBegin(objects), StepCall>>
                           ELSE Append(@, StepCall),
                 !.integrated = consumedBy(parts, world.bodies),
                 !.ranDetached = @ \cup
                     {world.listeners[i].owner : i \in
                        {j \in 1..Len(world.listeners) :
                            log.status[world.listeners[j].owner[1]] = "removed"}}]
    /\ pc' = IF pc = "idle" THEN "sync0" ELSE "sync1"
    /\ UNCHANGED <<heap, objects, shapes, nextFn>>
    /\ UNCHANGED <<bvars, mvars, svars, hvars>>

\* Demo.update, after each world step: objects[i].update() for every object
Sync ==
    /\ pc \in {"sync0", "sync1"}
    /\ shapes' = updateAll(shapes, objects)
    /\ pc' = IF pc = "sync0" THEN "step1" ELSE "idle"
    /\ log' = [log EXCEPT !.frame = @ \o updateCalls(objects)]
    /\ UNCHANGED <<world, heap, objects, parts, nextFn>>
    /\ UNCHANGED <<bvars, mvars, svars, hvars>>

LifeNext ==
    \/ \E kind \in Kinds : New(kind)
    \/ \E id \in 1..MaxObjects : DemoAdd(id)
    \/ \E index \in 1..MaxObjects : DemoRemove(index)
    \/ \E id \in 1..MaxObjects : RemoveSelf(id)
    \/ WorldStep
    \/ Sync

Spec == LifeStart /\ [][LifeNext]_vars

-----------------------------------------------------------------------------
\* MainDemo: the scene built from a geometry whose faces are 1-based, and
\* the respawn of its body (specification SpecMain)

MaxRespawns == 2

\* faces of a 1-based geometry over the three vertices of LifeVertices
MainFacePool == { <<1, 2, 3>>, <<3, 2, 1>>, <<2, 3, 1>>, <<1, 2, 3, 1>>, <<1, 2>> }

MainFaceLists == UNION { [1..n -> MainFacePool] : n \in 1..MaxFaces }

\* the options a respawn is called with
RespawnOptions == { NoOptions, BaseOptions(Some("MASS_SPRING"), None),
                    BaseOptions(None, Some(25)) }

\* new MainDemo(geometry), or new MainDemo() over the imported geometry,
\* before init()
MainInit ==
    /\ vertices = LifeVertices
    /\ faces \in MainFaceLists
    /\ options = NoOptions
    /\ held = NoOptions
    /\ phase = "main"
    /\ obj = NoObject
    /\ hyb = NoObject
    /\ pforce = <<>>
    /\ measured = None
    /\ LifeInit
    /\ \E v \in {"respawn", "single"} :
          demo = [variant |-> v, scene |-> FALSE, respawns |-> 0,
                  geometry |-> [vertices |-> vertices, faces |-> faces]]
    /\ spring = NoSpring
    /\ hand = NoHand

\* Demo.add(physObj) of a body constructed in the same handler
addNew(kind) ==
    /\ heap' = Append(heap, kind)
    /\ parts' = Extend(parts, PartsOfKind(Len(heap) + 1, kind), [pos |-> 0, force |-> <<>>])
    /\ shapes' = Extend(shapes, PartsOfKind(Len(heap) + 1, kind), 0)

\* MainDemo.initScene: the geometry's faces become 0-based in place, the
\* hybrid body is built from them and added.  As in ConstructHybrid, the
\* hybrid constructor is taken on faces that name vertices of the array.
InitScene ==
    /\ phase = "main"
    /\ demo.variant = "respawn"
    /\ ~demo.scene
    /\ facesInRange(demo.geometry.vertices, toZeroBased(demo.geometry.faces))
    /\ LET fs == toZeroBased(demo.geometry.faces)
       IN /\ demo' = [demo EXCEPT !.scene = TRUE, !.geometry.faces = fs]
          /\ hyb' = HybridSoftObject(demo.geometry.vertices, fs,
                                [offset |-> None, inner_options |-> None,
                                 outer_options |-> None])
    /\ obj' = NoObject
    /\ addNew("hybrid")
    /\ world' = addSelfOf("hybrid", world, Len(heap) + 1, nextFn)
    /\ nextFn' = nextFn + 3
    /\ objects' = Append(objects, Len(heap) + 1)
    /\ log' = [log EXCEPT !.status = Append(@, "attached")]
    /\ UNCHANGED <<vertices, faces, options, held, phase, pforce, measured, pc>>
    /\ UNCHANGED <<svars, hvars>>

\* MainDemo.initScene of src/src/ts/demo-main.ts: the body is built by the
\* constructor that shifts the faces, and added; this MainDemo has no respawn
InitSceneSingle ==
    /\ phase = "main"
    /\ demo.variant = "single"
    /\ ~demo.scene
    /\ demo' = [demo EXCEPT !.scene = TRUE,
                            !.geometry.faces = toZeroBased(demo.geometry.faces)]
    /\ obj' = SoftObjectFaces(demo.geometry.vertices, demo.geometry.faces, None)
    /\ hyb' = NoObject
    /\ addNew("soft")
    /\ world' = addSelfOf("soft", world, Len(heap) + 1, nextFn)
    /\ nextFn' = nextFn + 1
    /\ objects' = Append(objects, Len(heap) + 1)
    /\ log' = [log EXCEPT !.status = Append(@, "attached")]
    /\ UNCHANGED <<vertices, faces, options, held, phase, pforce, measured, pc>>
    /\ UNCHANGED <<svars, hvars>>

\* MainDemo.respawn(o_options, i_options, type): remove(0), a new body from
\* the same geometry, add
Respawn(o, i, type) ==
    /\ phase = "main"
    /\ demo.variant = "respawn"
    /\ demo.scene
    /\ demo.respawns < MaxRespawns
    /\ type = "HYBRID" => facesInRange(demo.geometry.vertices, demo.geometry.faces)
    /\ LET old == objects[1]
           id == Len(heap) + 1
           kind == IF type = "HYBRID" THEN "hybrid" ELSE "soft"
           w == removeSelf(world, old, nextFn)
           n == nextFn + BindsOf(old)
       IN /\ IF type = "HYBRID"
             THEN /\ hyb' = HybridSoftObject(demo.geometry.vertices, demo.geometry.faces,
                                [offset |-> None, inner_options |-> i, outer_options |-> Some(o)])
                  /\ obj' = NoObject
             ELSE /\ obj' = SoftObject(demo.geometry.vertices, demo.geometry.faces, o)
                  /\ hyb' = NoObject
          /\ addNew(kind)
          /\ world' = addSelfOf(kind, w, id, n)
          /\ nextFn' = n + (IF kind = "soft" THEN 1 ELSE 3)
          /\ objects' = Append(Tail(objects), id)
          /\ log' = [log EXCEPT !.status =
                        Append([log.status EXCEPT ![old] = "removed"], "attached")]
    /\ demo' = [demo EXCEPT !.respawns = @ + 1]
    /\ options' = o
    /\ held' = IF type = "HYBRID" THEN [o EXCEPT !.type = Some("PRESSURE")] ELSE o
    /\ UNCHANGED <<vertices, faces, phase, pforce, measured, pc>>
    /\ UNCHANGED <<svars, hvars>>

MainNext ==
    \/ InitScene
    \/ InitSceneSingle
    \/ \E o \in RespawnOptions, i \in {None, Some(NoOptions)}, type \in SoftTypes :
          Respawn(o, i, type)

SpecMain == MainInit /\ [][MainNext]_vars

-----------------------------------------------------------------------------
(* One spring between two particles (specification SpecSpring): the helper   *)
(* methods of SoftBody in src/unnamed/part_007, and CANNON.Spring.applyForce *)
(* as SoftObject.postStep calls it                                           *)

\* positions whose distances from one another are whole numbers: 0, 3, 4, 5
SpringPoints == { <<0, 0, 0>>, <<3, 0, 0>>, <<0, 4, 0>>, <<3, 4, 0>> }
SpringVelocities == { <<0, 0, 0>>, <<1, 0 - 2, 0>>, <<0, 3, 5>> }
RestLengths == {0, 2, 5}
SpringStiffness == 50
SpringDampings == {0, 3}

Particles == [position : SpringPoints, velocity : SpringVelocities]

NumVecSub(u, v) == NumVecAdd(u, NumVecScale(v, Fin(0 - 1, 1)))

\* Vector3.Magnitude, exact on the differences of SpringPoints
Magnitude(v) == ISqrt(dot(v, v))

\* the displacement without the test for equal endpoints
GetDisplacementUnguarded(a, b, expected) ==
    LET actual == vsub(a, b)
        m == Fin(Magnitude(actual), 1)
        displacement == NumAdd(m, Fin(0 - expected, 1))
    IN NumVecScale(<<NumDiv(Fin(actual[1], 1), m), NumDiv(Fin(actual[2], 1), m),
                     NumDiv(Fin(actual[3], 1), m)>>, displacement)

\* GetDisplacement(a, b, expected)
GetDisplacement(a, b, expected) ==
    IF a = b THEN ZeroVec
    ELSE LET actual == vsub(a, b)
             m == Fin(Magnitude(actual), 1)
             displacement == NumAdd(m, Fin(0 - expected, 1))
         IN NumVecScale(<<NumDiv(Fin(actual[1], 1), m), NumDiv(Fin(actual[2], 1), m),
                          NumDiv(Fin(actual[3], 1), m)>>, displacement)

\* Vector3.Project(vector, onNormal): zero when onNormal has no length
Project(vector, onNormal) ==
    LET sqrMag == dot(onNormal, onNormal)
    IN IF sqrMag = 0 THEN ZeroVec
       ELSE NumVecScale(NumVec(onNormal), Fin(dot(vector, onNormal), sqrMag))

\* GetRelativeVelocity(a, b)
GetRelativeVelocity(a, b) ==
    Project(vsub(a.velocity, b.velocity), vsub(a.position, b.position))

\* GetSpringForce(d, v, k, c) = (d * k * -1) - (c * v)
GetSpringForce(d, v, k, c) ==
    NumVecSub(NumVecScale(NumVecScale(d, Fin(k, 1)), Fin(0 - 1, 1)),
              NumVecScale(v, Fin(c, 1)))

\* the spring force field on particle p from its neighbour other
springField(p, other, expected, k, c) ==
    GetSpringForce(GetDisplacement(p.position, other.position, expected),
                   GetRelativeVelocity(p, other), k, c)

\* CANNON.Vec3.normalize: the vector over its norm, the zero vector when the
\* norm is 0
vec3Normalize(r) ==
    LET n == Magnitude(r)
    IN IF n > 0 THEN <<Fin(r[1], n), Fin(r[2], n), Fin(r[3], n)>> ELSE ZeroVec

\* CANNON.Spring.applyForce with both anchors at the bodies' centres:
\* f = r_unit * (-k * (rlen - l) - d * u.dot(r_unit)); bodyA.force -= f;
\* bodyB.force += f
springApplyForce(bodyA, bodyB, l, k, d) ==
    LET r == vsub(bodyB.position, bodyA.position)
        rlen == Magnitude(r)
        r_unit == vec3Normalize(r)
        u == NumVec(vsub(bodyB.velocity, bodyA.velocity))
        scalar == NumAdd(Fin(0 - k * (rlen - l), 1),
                         NumMul(Fin(0 - d, 1), NumDot(u, r_unit)))
        f == NumVecScale(r_unit, scalar)
    IN [forceA |-> NumVecSub(ZeroVec, f), forceB |-> NumVecAdd(ZeroVec, f)]

SpringInit ==
    /\ vertices = <<>>
    /\ faces = <<>>
    /\ options = NoOptions
    /\ held = NoOptions
    /\ phase = "spring"
    /\ obj = NoObject
    /\ hyb = NoObject
    /\ pforce = <<>>
    /\ measured = None
    /\ LifeInit
    /\ demo = NoDemo
    /\ hand = NoHand
    /\ \E a \in Particles, b \in Particles, l \in RestLengths, c \in SpringDampings :
          spring = [stage |-> "input", a |-> a, b |-> b, restLength |-> l,
                    stiffness |-> SpringStiffness, damping |-> c]

\* the spring force field of SoftBody evaluated on both particles
SpringForceField ==
    /\ spring.stage = "input"
    /\ spring' = [stage |-> "field", a |-> spring.a, b |-> spring.b,
                  restLength |-> spring.restLength,
                  stiffness |-> spring.stiffness, damping |-> spring.damping,
                  d |-> GetDisplacement(spring.a.position, spring.b.position,
                                        spring.restLength),
                  forceA |-> springField(spring.a, spring.b, spring.restLength,
                                         spring.stiffness, spring.damping),
                  forceB |-> springField(spring.b, spring.a, spring.restLength,
                                         spring.stiffness, spring.damping)]
    /\ UNCHANGED <<bvars, lvars, mvars, hvars>>

\* SoftObject.postStep: spring.applyForce()
SpringApplyForce ==
    /\ spring.stage = "input"
    /\ LET f == springApplyForce(spring.a, spring.b, spring.restLength,
                                 spring.stiffness, spring.damping)
       IN spring' = [stage |-> "applied", a |-> spring.a, b |-> spring.b,
                     restLength |-> spring.restLength,
                     stiffness |-> spring.stiffness, damping |-> spring.damping,
                     d |-> ZeroVec, forceA |-> f.forceA, forceB |-> f.forceB]
    /\ UNCHANGED <<bvars, lvars, mvars, hvars>>

SpringNext == SpringForceField \/ SpringApplyForce

SpecSpring == SpringInit /\ [][SpringNext]_vars

-----------------------------------------------------------------------------
(* Hand (specification SpecHand): the Hand with a list of constraints of     *)
(* src/src/ts/hybrid-soft-object.ts 361-462, and the Hand with one           *)
(* constraint of src/src/ts/hand.ts.  A constraint is known by the order in  *)
(* which it was created; hand.world is world.constraints.                    *)

MaxConstraints == 4

\* the bodies a click can hit, and the places a click or a drag can be at
HandBodies == {1, 2, 3}
HandPositions == {0, 1, 2}

\* this.constraint = null
Null == 0

HandInit ==
    /\ vertices = <<>>
    /\ faces = <<>>
    /\ options = NoOptions
    /\ held = NoOptions
    /\ phase = "hand"
    /\ obj = NoObject
    /\ hyb = NoObject
    /\ pforce = <<>>
    /\ measured = None
    /\ LifeInit
    /\ demo = NoDemo
    /\ spring = NoSpring
    /\ \E v \in {"multi", "single"} :
          hand = [variant |-> v, active |-> FALSE, joint |-> 0, jointBefore |-> 0,
                  constraints |-> <<>>, constraint |-> Null,
                  world |-> {}, next |-> 1, last |-> "new"]

\* release that takes only the newest constraint out of the world
removeConstraintsNewest(w, cs) ==
    IF cs = <<>> THEN w ELSE w \ {cs[Len(cs)]}

\* this.constraints.forEach(constraint => this.world.removeConstraint(constraint))
removeConstraints(w, cs) == w \ {cs[i] : i \in 1..Len(cs)}

\* Hand.grab(body, pos), list variant
Grab(body, pos) ==
    /\ hand.variant = "multi"
    /\ hand.next <= MaxConstraints
    /\ hand' = [hand EXCEPT !.active = TRUE,
                            !.jointBefore = hand.joint,
                            !.joint = pos,
                            !.constraints = Append(@, hand.next),
                            !.world = @ \cup {hand.next},
                            !.next = @ + 1,
                            !.last = "grab"]
    /\ UNCHANGED <<bvars, lvars, mvars, svars>>

\* Hand.grabFace(bodies, pos): one constraint per body
GrabFace(bodies, pos) ==
    /\ hand.variant = "multi"
    /\ hand.next + Len(bodies) - 1 <= MaxConstraints
    /\ LET made == [i \in 1..Len(bodies) |-> hand.next + i - 1]
       IN hand' = [hand EXCEPT !.active = TRUE,
                               !.jointBefore = hand.joint,
                               !.joint = pos,
                               !.constraints = @ \o made,
                               !.world = @ \cup {made[i] : i \in 1..Len(made)},
                               !.next = @ + Len(bodies),
                               !.last = "grabFace"]
    /\ UNCHANGED <<bvars, lvars, mvars, svars>>

\* Hand.release(), list variant
Release ==
    /\ hand.variant = "multi"
    /\ hand' = [hand EXCEPT !.world = removeConstraints(@, hand.constraints),
                            !.constraints = <<>>,
                            !.active = FALSE,
                            !.jointBefore = hand.joint,
                            !.last = "release"]
    /\ UNCHANGED <<bvars, lvars, mvars, svars>>

\* Hand.move(pos), list variant: if (this.active) joint.position.copy(pos)
Move(pos) ==
    /\ hand.variant = "multi"
    /\ hand' = [hand EXCEPT !.jointBefore = hand.joint,
                            !.joint = IF hand.active THEN pos ELSE @,
                            !.last = "move"]
    /\ UNCHANGED <<bvars, lvars, mvars, svars>>

\* Hand.grab(body, pos), one-constraint variant: this.constraint is assigned
GrabSingle(body, pos) ==
    /\ hand.variant = "single"
    /\ hand.next <= MaxConstraints
    /\ hand' = [hand EXCEPT !.active = TRUE,
                            !.jointBefore = hand.joint,
                            !.joint = pos,
                            !.constraint = hand.next,
                            !.world = @ \cup {hand.next},
                            !.next = @ + 1,
                            !.last = "grab"]
    /\ UNCHANGED <<bvars, lvars, mvars, svars>>

\* Hand.release(), one-constraint variant: removeConstraint(this.constraint),
\* which finds nothing to remove when it is null
ReleaseSingle ==
    /\ hand.variant = "single"
    /\ hand' = [hand EXCEPT !.world = @ \ {hand.constraint},
                            !.constraint = Null,
                            !.active = FALSE,
                            !.jointBefore = hand.joint,
                            !.last = "release"]
    /\ UNCHANGED <<bvars, lvars, mvars, svars>>

\* Hand.move(pos), one-constraint variant
MoveSingle(pos) ==
    /\ hand.variant = "single"
    /\ hand' = [hand EXCEPT !.jointBefore = hand.joint,
                            !.joint = IF hand.active THEN pos ELSE @,
                            !.last = "move"]
    /\ UNCHANGED <<bvars, lvars, mvars, svars>>

\* the three particles of a face, or fewer
FaceBodies == { <<1, 2, 3>>, <<2, 3>> }

HandNext ==
    \/ \E body \in HandBodies, pos \in HandPositions : Grab(body, pos)
    \/ \E bodies \in FaceBodies, pos \in HandPositions : GrabFace(bodies, pos)
    \/ Release
    \/ \E pos \in HandPositions : Move(pos)
    \/ \E body \in HandBodies, pos \in HandPositions : GrabSingle(body, pos)
    \/ ReleaseSingle
    \/ \E pos \in HandPositions : MoveSingle(pos)

SpecHand == HandInit /\ [][HandNext]_vars

-----------------------------------------------------------------------------
(* Properties of construction and of the force model (SpecBuild) *)

Built == phase \in {"built", "stepped"}
BuiltOptions == Built /\ obj.variant = "options"

SpringEnds(sp) == {sp.bodyA, sp.bodyB}
SpringPairs(o) == {SpringEnds(o.springs[i]) : i \in 1..Len(o.springs)}
NoDuplicateSpring(o) ==
    \A i, j \in 1..Len(o.springs) :
        i # j => SpringEnds(o.springs[i]) # SpringEnds(o.springs[j])
NoSelfSpring(o) == \A i \in 1..Len(o.springs) : o.springs[i].bodyA # o.springs[i].bodyB

\* C1: for every vertex array and face list, the spring set of the built
\* SoftObject has no two springs on the same unordered pair of particles and
\* no spring from a particle to itself.
C1_NoDuplicateNoSelfPair ==
    BuiltOptions => NoDuplicateSpring(obj) /\ NoSelfSpring(obj)

RestLengthOfOwnEndpoints(o) ==
    \A i \in 1..Len(o.springs) :
        (o.springs[i].bodyA # Undefined /\ o.springs[i].bodyB # Undefined) =>
            o.springs[i].restLength2 =
                distanceToSquared(VertexAt(vertices, o.springs[i].bodyA),
                                  VertexAt(vertices, o.springs[i].bodyB))

\* C3: every spring made by a SoftObject constructor has as rest length the
\* distance between the input positions of its own two endpoints.
C3_RestLengthOwnEndpoints ==
    (Built /\ obj.variant \in {"options", "triangles"}) => RestLengthOfOwnEndpoints(obj)

AllZeroForce == \A i \in 1..Len(pforce) : pforce[i] = ZeroVec

\* C4: when getVolume() is 0, postStep skips the pressure force: nothing is
\* divided by zero and no body receives an infinite or undefined force.
C4_ZeroVolumeSkipsPressure ==
    (phase = "stepped" /\ getVolume(obj) = 0) => AllZeroForce

\* C5: a HybridSoftObject over N vertices has exactly N coupling springs, the
\* i-th joining inner_body.bodies[i] to outer_body.bodies[i] with rest length
\* the distance between those two particles at construction.
C5_CouplingSprings ==
    (Built /\ hyb.variant = "hybrid") =>
        /\ Len(hyb.springs) = NumVertices(vertices)
        /\ Len(hyb.inner_body.bodies) = NumVertices(vertices)
        /\ Len(hyb.outer_body.bodies) = NumVertices(vertices)
        /\ \A i \in 1..Len(hyb.springs) :
              /\ hyb.springs[i].bodyA = <<"inner", i - 1>>
              /\ hyb.springs[i].bodyB = <<"outer", i - 1>>
              /\ hyb.springs[i].restLength2 =
                    distanceToSquared(hyb.inner_body.bodies[i], VertexAt(vertices, i - 1))
              /\ (hyb.offset = 0 => hyb.springs[i].restLength2 = 0)

C5_Witness ==
    /\ Built /\ hyb.variant = "hybrid"
    /\ vertices = CubeVertices
    /\ Len(hyb.springs) = 8
    /\ hyb.springs[8].restLength2 > 0

DistinctVertices(face) == Cardinality({face[i] : i \in 1..Len(face)}) = Len(face)

\* the corners of the cube that differ in exactly n coordinates
CubePairs(n) ==
    { {a, b} : a, b \in 0..7 } \cap
    { pr \in SUBSET (0..7) :
        \E a, b \in pr :
            /\ pr = {a, b}
            /\ Cardinality({k \in 1..3 :
                    VertexAt(CubeVertices, a)[k] # VertexAt(CubeVertices, b)[k]}) = n }

\* C6: a quad face gives a PRESSURE body its 4 perimeter pairs (no diagonal)
\* and a MASS_SPRING body all 6 pairs; the unit cube so gets its 12 edges as
\* springs for PRESSURE and 12 edges plus 12 face diagonals for MASS_SPRING;
\* a triangle face gives its 3 edges for every type.
C6_PairPolicy ==
    (BuiltOptions /\ facesInRange(vertices, faces)) =>
        /\ (Len(faces) = 1 /\ DistinctVertices(faces[1]) /\ Len(faces[1]) = 3) =>
              /\ Len(obj.springs) = 3
              /\ SpringPairs(obj) = { {faces[1][1], faces[1][2]}, {faces[1][2], faces[1][3]},
                                      {faces[1][3], faces[1][1]} }
        /\ (Len(faces) = 1 /\ DistinctVertices(faces[1]) /\ Len(faces[1]) = 4
                /\ obj.type = "PRESSURE") =>
              /\ Len(obj.springs) = 4
              /\ SpringPairs(obj) = { {faces[1][1], faces[1][2]}, {faces[1][2], faces[1][3]},
                                      {faces[1][3], faces[1][4]}, {faces[1][4], faces[1][1]} }
        /\ (Len(faces) = 1 /\ DistinctVertices(faces[1]) /\ Len(faces[1]) = 4
                /\ obj.type = "MASS_SPRING") =>
              /\ Len(obj.springs) = 6
              /\ SpringPairs(obj) = { {faces[1][i], faces[1][j]} : i, j \in 1..4 }
                                        \ { {faces[1][i]} : i \in 1..4 }
        /\ (vertices = CubeVertices /\ obj.type = "PRESSURE") =>
              /\ Len(obj.springs) = 12
              /\ SpringPairs(obj) = CubePairs(1)
        /\ (vertices = CubeVertices /\ obj.type = "MASS_SPRING") =>
              /\ Len(obj.springs) = 24
              /\ SpringPairs(obj) = CubePairs(1) \cup CubePairs(2)

C6_Witness ==
    /\ BuiltOptions
    /\ vertices = CubeVertices
    /\ obj.type = "PRESSURE"
    /\ Len(obj.springs) = 12

\* C7: with pressure coefficient 0 the pressure contribution postStep applies
\* to every particle is the zero vector, for every mesh, flat ones included.
C7_ZeroPressureZeroForce ==
    (phase = "stepped" /\ obj.pressure = 0) => AllZeroForce

IsCube == vertices = CubeVertices /\ faces \in {CubeFaces, ReverseAll(CubeFaces)}

\* C9: for the unit cube getVolume() returns 1.0 and getSurfaceArea() 6.0.
C9_UnitCube ==
    (IsCube /\ measured # None) =>
        /\ measured[1].volume = 1 * VolumeUnit
        /\ measured[1].surfaceArea = 6 * AreaUnit

C9_Witness == IsCube /\ measured # None /\ measured[1].volume = VolumeUnit

RECURSIVE SumVertices(_, _)
SumVertices(vs, n) ==
    IF n = 0 THEN <<0, 0, 0>> ELSE vadd(SumVertices(vs, n - 1), VertexAt(vs, n - 1))

\* N times the vector from the centroid of the vertices to vertex i (0-based)
FromCentroid(vs, i) ==
    LET v == VertexAt(vs, i)
        n == NumVertices(vs)
    IN vsub(<<n * v[1], n * v[2], n * v[3]>>, SumVertices(vs, n))

PointsAway(i) ==
    LET d == NumDot(pforce[i + 1], NumVec(FromCentroid(vertices, i)))
    IN d.k = "fin" /\ d.n > 0

IsConvexClosed == Mesh(vertices, faces) \in ConvexClosed

\* C10 as stated: on a convex closed mesh with pressure > 0 the total
\* pressure force on every vertex points away from the centroid.
C10_PressureAwayFromCentroid ==
    (phase = "stepped" /\ IsConvexClosed /\ obj.pressure > 0) =>
        \A i \in 0..(NumVertices(vertices) - 1) : PointsAway(i)

WoundOutward == sumSignedVolume(obj, NumTriangles(obj)) > 0

\* C10 amended: on a convex closed mesh whose faces are wound counter-clockwise
\* seen from outside (positive signed volume), with pressure > 0, the total
\* pressure force on every vertex points away from the centroid.
C10_OutwardWinding ==
    (phase = "stepped" /\ IsConvexClosed /\ WoundOutward /\ obj.pressure > 0) =>
        \A i \in 0..(NumVertices(vertices) - 1) : PointsAway(i)

C10_Witness ==
    /\ phase = "stepped" /\ IsCube /\ WoundOutward /\ obj.pressure = 50
    /\ \A i \in 0..7 : PointsAway(i)

\* C12: when a face references a vertex index outside [0, V-1], construction
\* fails with an error: no body is ever built from such a face list, and no
\* built body has a spring with a missing endpoint.
C12_OutOfRangeFailsFast ==
    (phase # "input" /\ obj.variant = "options") =>
        /\ facesInRange(vertices, faces)
        /\ \A i \in 1..Len(obj.springs) :
              obj.springs[i].bodyA # Undefined /\ obj.springs[i].bodyB # Undefined

WellFormed(face) == Len(face) \in {3, 4}
ShapesBuilt ==
    IF phase = "input" THEN {}
    ELSE IF obj.variant = "options" THEN {obj.shape}
    ELSE IF hyb.variant = "hybrid" THEN {hyb.inner_body.shape, hyb.outer_body.shape}
    ELSE {}

\* C13: a face whose length is neither 3 nor 4 is skipped by triangulation:
\* the body is built, the face adds no index to the triangle buffer, and the
\* buffer is what the other faces alone would give.
C13_MalformedFaceSkipped ==
    \A sh \in ShapesBuilt :
        /\ sh.indices = triangulate(SelectSeq(faces, WellFormed))
        /\ (\A i \in 1..Len(faces) : ~WellFormed(faces[i])) => sh.indices = <<>>

C13_Witness ==
    /\ ShapesBuilt # {}
    /\ \E i, j \in 1..Len(faces) : ~WellFormed(faces[i]) /\ WellFormed(faces[j])
    /\ \A sh \in ShapesBuilt : Len(sh.indices) >= 3

\* where the triangles of face i start in the triangle buffer (0-based)
RECURSIVE TriangleOffset(_, _)
TriangleOffset(fs, i) ==
    IF i = 1 THEN 0
    ELSE TriangleOffset(fs, i - 1)
            + (IF Len(fs[i - 1]) = 3 THEN 3 ELSE IF Len(fs[i - 1]) = 4 THEN 6 ELSE 0)

\* C19: in face order, a 3-vertex face emits itself, a 4-vertex face
\* [p0,p1,p2,p3] emits [p0,p1,p2] and [p2,p3,p0]; the buffer has length
\* 3T + 6Q and holds only indices that occur in the faces.
C19_Triangulation ==
    \A sh \in ShapesBuilt :
        LET T == Cardinality({i \in 1..Len(faces) : Len(faces[i]) = 3})
            Q == Cardinality({i \in 1..Len(faces) : Len(faces[i]) = 4})
        IN /\ Len(sh.indices) = 3 * T + 6 * Q
           /\ \A i \in 1..Len(faces) :
                 LET f == faces[i]
                     at == TriangleOffset(faces, i)
                 IN /\ Len(f) = 3 => SubSeq(sh.indices, at + 1, at + 3) = f
                    /\ Len(f) = 4 =>
                          SubSeq(sh.indices, at + 1, at + 6)
                              = <<f[1], f[2], f[3], f[3], f[4], f[1]>>
           /\ \A k \in 1..Len(sh.indices) :
                 \E i \in 1..Len(faces) : \E j \in 1..Len(faces[i]) :
                     sh.indices[k] = faces[i][j]

C19_Witness ==
    /\ BuiltOptions
    /\ Len(faces) = 2 /\ Len(faces[1]) = 4 /\ Len(faces[2]) = 3
    /\ Len(obj.shape.indices) = 9

\* C14: in a hybrid body the inner shell has a spring on all 6 vertex pairs
\* of each quad face, both diagonals included, as a MASS_SPRING body has.
C14_InnerShellAllPairs ==
    (Built /\ hyb.variant = "hybrid") =>
        \A i \in 1..Len(faces) :
            Len(faces[i]) = 4 =>
                \A a, b \in 1..4 :
                    faces[i][a] # faces[i][b] =>
                        {faces[i][a], faces[i][b]} \in SpringPairs(hyb.inner_body)

\* C16: for a MASS_SPRING body postStep applies spring forces only: the
\* pressure model leaves the force of every particle untouched, for every
\* mesh and whatever pressure value the options carried.
C16_MassSpringNoPressure ==
    (phase = "stepped" /\ obj.type = "MASS_SPRING") => AllZeroForce

OptionFields ==
    {"pressure", "stiffness", "damping", "point_mass", "point_radius", "point_damping"}

\* C17: a SoftObject built with no options has type PRESSURE, pressure 50,
\* stiffness 200, damping 0.4, point_mass 0.05, point_radius 0.01 and
\* point_damping 0.3, a HybridSoftObject offset 0.2; an option that is
\* supplied replaces its own default and no other.
C17_Defaults ==
    /\ (phase = "built" /\ obj.variant \in {"options", "options_ts"}) =>
          /\ obj.type = Coalesce(options.type, "PRESSURE")
          /\ \A f \in OptionFields : obj[f] = Coalesce(options[f], Defaults[f])
    /\ (phase = "built" /\ hyb.variant = "hybrid") =>
          hyb.offset = Coalesce(options.offset, 2)

\* how many of triangle i's three index entries name particle p (0-based)
Incidence(o, i, p) ==
    Cardinality({k \in 1..3 : o.shape.indices[3 * i + k] = p})

\* the sum over the first n triangles of component c of the triangle's
\* normal scaled to twice its area, once per entry that names particle p
RECURSIVE IncidentNormalSum(_, _, _, _)
IncidentNormalSum(o, p, c, n) ==
    IF n = 0 THEN 0
    ELSE LET t == getTriangleVertices(o, n - 1)
         IN IncidentNormalSum(o, p, c, n - 1)
                + Incidence(o, n - 1, p) * computeNormal(t[1], t[2], t[3])[c]

\* C20: in one postStep of a body of non-zero volume every triangle's vector
\* unitNormal * (-pressure / volume) * area goes in full, not divided by 3,
\* to each of the triangle's three particles: the pressure force on a
\* particle is the sum of the full vectors of the triangles incident to it.
C20_FullVectorPerVertex ==
    (phase = "stepped" /\ getVolume(obj) # 0) =>
        \A p \in 1..Len(obj.bodies) : \A c \in 1..3 :
            pforce[p][c] =
                Fin(0 - obj.pressure * VolumeUnit
                          * IncidentNormalSum(obj, p - 1, c, NumTriangles(obj)),
                    AreaUnit * getVolume(obj))

C20_Witness ==
    /\ phase = "stepped"
    /\ getVolume(obj) # 0
    /\ obj.pressure # 0
    /\ \E p \in 1..Len(obj.bodies) :
          /\ Cardinality({i \in 0..(NumTriangles(obj) - 1) : Incidence(obj, i, p - 1) > 0}) >= 3
          /\ pforce[p] # ZeroVec

\* vectors every vertex is moved by
Translations == { <<1, 0, 0>>, <<0, 0 - 7, 0>>, <<3, 0 - 2, 11>>, <<0 - 40, 25, 6>> }

Translate(vs, d) == [k \in 1..Len(vs) |-> vs[k] + d[((k - 1) % 3) + 1]]

\* every triangle of the buffer with its winding reversed
ReverseTriangles(idx) ==
    [k \in 1..Len(idx) |->
        LET j == (k - 1) % 3 IN idx[k - j + (2 - j)]]

\* six times the signed volume of the tetrahedron of the origin and triangle
\* t of idx over vs, summed over the first n triangles
RECURSIVE TripleProductSum(_, _, _)
TripleProductSum(vs, idx, n) ==
    IF n = 0 THEN 0
    ELSE LET a == VertexAt(vs, idx[3 * n - 2])
             b == VertexAt(vs, idx[3 * n - 1])
             c == VertexAt(vs, idx[3 * n])
         IN TripleProductSum(vs, idx, n - 1)
              + a[1] * (b[2] * c[3] - b[3] * c[2])
              + a[2] * (b[3] * c[1] - b[1] * c[3])
              + a[3] * (b[1] * c[2] - b[2] * c[1])

\* C21: getVolume() is the absolute value of the sum over the triangles of
\* a.(b x c)/6; on a closed, consistently wound mesh it is the same after
\* every vertex is moved by one vector, and the same after every triangle's
\* winding is reversed.
C21_VolumeInvariances ==
    (measured # None /\ IsConvexClosed) =>
        LET idx == obj.shape.indices
            vol == measured[1].volume
        IN /\ vol = Abs(TripleProductSum(vertices, idx, Len(idx) \div 3))
           /\ \A d \in Translations :
                 getVolume([obj EXCEPT !.shape.vertices = Translate(vertices, d)]) = vol
           /\ getVolume([obj EXCEPT !.shape.indices = ReverseTriangles(idx)]) = vol

C21_Witness ==
    /\ measured # None
    /\ IsConvexClosed
    /\ measured[1].volume > 0
    /\ sumSignedVolume(obj, NumTriangles(obj)) < 0

\* the well-formed faces of a face list, in order
RECURSIVE WellFormedOnly(_)
WellFormedOnly(fs) ==
    IF fs = <<>> THEN <<>>
    ELSE IF WellFormed(Head(fs)) THEN <<Head(fs)>> \o WellFormedOnly(Tail(fs))
    ELSE WellFormedOnly(Tail(fs))

\* C22: a face whose length is neither 3 nor 4 contributes no spring: every
\* spring of the body joins two entries of one well-formed face, and the
\* body has as many springs as its well-formed faces alone would give.
C22_MalformedFaceNoSpring ==
    BuiltOptions =>
        /\ \A i \in 1..Len(obj.springs) :
              \E f \in 1..Len(faces) :
                  /\ WellFormed(faces[f])
                  /\ \E a, b \in 1..Len(faces[f]) :
                        /\ bodyAt(vertices, faces[f][a]) = obj.springs[i].bodyA
                        /\ bodyAt(vertices, faces[f][b]) = obj.springs[i].bodyB
        /\ Len(obj.springs) = Len(springNetwork(obj.type, WellFormedOnly(faces), vertices))

\* C26: constructing a HybridSoftObject leaves the inner_options and
\* outer_options objects of the caller as they were handed in.
C26_OptionsLeftUnchanged ==
    (phase # "input" /\ hyb.variant = "hybrid") => held = options

\* C30: in the positional variant, whenever a type argument is passed the
\* body's type is that argument, for MASS_SPRING, PRESSURE and HYBRID; a
\* body created with MASS_SPRING has pressure 0 and springs on all pairs of
\* its quad faces.
C30_TypeArgumentTaken ==
    (phase = "built" /\ obj.variant = "faces" /\ options.type # None) =>
        /\ obj.type = options.type[1]
        /\ (options.type = Some("MASS_SPRING")) =>
              /\ obj.pressure = 0
              /\ obj.springs = addFaces([added |-> {}, springs |-> <<>>],
                                        "MASS_SPRING", faces, vertices).springs

\* C11: with zero simulation ticks, with or without update(), the vertex
\* position buffer read back from the body equals the input vertex array
\* element for element, and particle i sits at input vertex i.
C11_RoundTrip ==
    (phase \in {"built", "updated"} /\ obj.variant = "options") =>
        /\ Len(obj.position) = Len(vertices)
        /\ \A k \in 1..Len(vertices) : Float32Equals(obj.position[k], vertices[k])
        /\ \A i \in 1..NumVertices(vertices) : obj.bodies[i] = VertexAt(vertices, i - 1)

\* the bodies update() has been called on
UpdatedBodies ==
    IF phase # "updated" THEN {}
    ELSE IF obj.variant = "options" THEN {obj}
    ELSE IF hyb.variant = "hybrid" THEN {hyb.inner_body, hyb.outer_body}
    ELSE {}

\* the body as the constructor left it
AsConstructed(o) ==
    IF obj.variant = "options" THEN SoftObject(vertices, faces, options)
    ELSE IF o = hyb.inner_body THEN HybridSoftObject(vertices, faces, options).inner_body
    ELSE HybridSoftObject(vertices, faces, options).outer_body

\* C23: after update() entry i of the rendered vertex buffer and entries
\* 3i, 3i+1, 3i+2 of the collision proxy equal bodies[i].position, and
\* positions, springs and the triangle buffer are what they were; the hybrid
\* body does so for both shells.
C23_UpdateCopiesPositions ==
    \A o \in UpdatedBodies :
        /\ Len(o.position) = 3 * Len(o.bodies)
        /\ Len(o.shape.vertices) = 3 * Len(o.bodies)
        /\ \A i \in 1..Len(o.bodies) : \A c \in 1..3 :
              /\ Float32Equals(o.position[3 * (i - 1) + c], o.bodies[i][c])
              /\ o.shape.vertices[3 * (i - 1) + c] = o.bodies[i][c]
        /\ o.bodies = AsConstructed(o).bodies
        /\ o.springs = AsConstructed(o).springs
        /\ o.shape.indices = AsConstructed(o).shape.indices

-----------------------------------------------------------------------------
(* Properties of one spring (SpecSpring) *)

FiniteVec(v) == \A c \in 1..3 : IsFinite(v[c])

\* the whole-number distance of two of the SpringPoints
Distance(a, b) == CHOOSE n \in 0..5 : n * n = dot(vsub(a, b), vsub(a, b))

-----------------------------------------------------------------------------
(* Properties of the Hand (SpecHand) *)

\* C28: for the Hand with a list of constraints, after a sequence of grab,
\* grabFace, move and release calls that ends with release() the list is
\* empty, active is false and no constraint the Hand added is in the world;
\* move() changes the joint's position only while active is true.
C28_ReleaseRemovesAll ==
    (hand.variant = "multi") =>
        /\ (hand.last = "release") =>
              /\ hand.constraints = <<>>
              /\ ~hand.active
              /\ \A c \in 1..(hand.next - 1) : c \notin hand.world
        /\ (hand.last = "move" /\ ~hand.active) => hand.joint = hand.jointBefore

C28_Witness ==
    /\ hand.variant = "multi"
    /\ hand.last = "release"
    /\ hand.next >= 5

\* C29: for the Hand with one constraint, after a sequence of grab and
\* release calls that ends with release() no constraint made by grab is in
\* the world, constraint is null and active is false; and whenever active is
\* true, constraint is not null.
C29_SingleReleaseRemoves ==
    (hand.variant = "single") =>
        /\ (hand.last = "release") =>
              /\ \A c \in 1..(hand.next - 1) : c \notin hand.world
              /\ hand.constraint = Null
              /\ ~hand.active
        /\ hand.active => hand.constraint # Null

-----------------------------------------------------------------------------
(* Properties of the life cycle (Spec) *)

ListenersOf(id) == {i \in 1..Len(world.listeners) : world.listeners[i].owner[1] = id}

\* C2: after removeSelf the body's per-step callback is deregistered, so no
\* later world step runs its postStep or applies a force to its removed
\* particles; a second removeSelf changes nothing.
C2_RemoveSelfDeregisters ==
    \A id \in 1..Len(heap) :
        log.status[id] = "removed" =>
            /\ ListenersOf(id) = {}
            /\ \A o \in log.ranDetached : o[1] # id

\* the objects that register a postStep callback when body id is attached
OwnersOf(id) ==
    IF heap[id] = "soft" THEN {<<id, "self">>}
    ELSE {<<id, "inner">>, <<id, "outer">>, <<id, "hybrid">>}
ListenersFor(owner) == {i \in 1..Len(world.listeners) : world.listeners[i].owner = owner}

\* how often the springs of owner were applied to particle p since the last
\* integration, and how many of owner's springs end at p
SpringForces(p, owner) ==
    Cardinality({i \in 1..Len(parts[p].force) :
                    parts[p].force[i].kind = "spring" /\ parts[p].force[i].owner = owner})
IncidentSprings(p, owner) ==
    IF owner[2] = "hybrid"
    THEN Cardinality({i \in 1..Len(LifeHybrid.springs) :
                         <<p[2], p[3]>> \in {LifeHybrid.springs[i].bodyA,
                                             LifeHybrid.springs[i].bodyB}})
    ELSE IF owner[2] # p[2] THEN 0
    ELSE Cardinality({i \in 1..Len(ShellObject(owner[2]).springs) :
                         p[3] \in {ShellObject(owner[2]).springs[i].bodyA,
                                   ShellObject(owner[2]).springs[i].bodyB}})

\* C15: after addSelf on a detached body every particle of every owned shell
\* is in the world and exactly one postStep callback is registered for the
\* body (for each of the objects it owns), so each of its springs is applied
\* exactly once per world step.
C15_AttachRegistersOnce ==
    \A id \in 1..Len(heap) :
        log.status[id] = "attached" =>
            /\ ObjectParts(id) \subseteq world.bodies
            /\ \A owner \in OwnersOf(id) :
                  /\ Cardinality(ListenersFor(owner)) = 1
                  /\ \A p \in ObjectParts(id) :
                        SpringForces(p, owner) \in {0, IncidentSprings(p, owner)}

\* the calls Demo.update makes, in order, when objs are registered
WholeFrame(objs) ==
    <<FrameBegin(objs)>>
        \o <<[e |-> "step", dt |-> Fin(1, 120)]>>
        \o [i \in 1..Len(objs) |-> [e |-> "update", id |-> objs[i]]]
        \o <<[e |-> "step", dt |-> Fin(1, 120)]>>
        \o [i \in 1..Len(objs) |-> [e |-> "update", id |-> objs[i]]]

\* how many of those calls have been made at each point of Demo.update
CallsMade(n) ==
    IF pc = "sync0" THEN 2
    ELSE IF pc = "step1" THEN 2 + n
    ELSE IF pc = "sync1" THEN 3 + n
    ELSE 3 + 2 * n

\* C24: one Demo.update makes exactly 2 world steps of 1/120 s, and after
\* each of them calls update() on every registered object in registration
\* order before the next world step starts.
C24_TwoSubstepsThenSync ==
    /\ (pc = "idle") => world.stepnumber % 2 = 0
    /\ log.frame # <<>> =>
          LET objs == log.frame[1].objects
          IN log.frame = SubSeq(WholeFrame(objs), 1, CallsMade(Len(objs)))

C24_Witness ==
    /\ pc = "idle"
    /\ Len(log.frame) = 7
    /\ log.frame[3].id # log.frame[4].id
    /\ world.stepnumber >= 2

\* C8: every force contribution is computed from the current positions and
\* applied before the integrator advances the positions of that step; none
\* computed during one step is carried into the integration of the next.
C8_ForcesAppliedBeforeIntegration ==
    \A e \in log.integrated : e.c.computedIn = e.call /\ e.c.fresh

-----------------------------------------------------------------------------
(* Properties of MainDemo (SpecMain) *)

\* C18: the geometry's 1-based face indices are made 0-based once, by
\* initScene; the body of the scene and the body of every later respawn
\* carry triangle buffers whose every index is the geometry's index minus
\* one, inside 0..V-1.
SceneShapes ==
    IF obj.variant \in {"options", "faces"} THEN {obj.shape}
    ELSE IF hyb.variant = "hybrid" THEN {hyb.inner_body.shape, hyb.outer_body.shape}
    ELSE {}

C18_NormalisedOnce ==
    (phase = "main" /\ demo.scene) =>
        /\ SceneShapes # {}
        /\ \A sh \in SceneShapes :
              /\ Len(sh.indices) = Len(triangulate(faces))
              /\ \A k \in 1..Len(sh.indices) :
                    /\ sh.indices[k] = triangulate(faces)[k] - 1
                    /\ sh.indices[k] \in 0..(NumVertices(vertices) - 1)

\* C27: after MainDemo's initialisation and after any number of respawn
\* calls Demo.objects holds exactly one object, every particle of it is in
\* the world, and no particle of an object removed before is.
C27_OneObjectInWorld ==
    (phase = "main" /\ demo.scene) =>
        /\ Len(objects) = 1
        /\ objects[1] = Len(heap)
        /\ \A p \in DOMAIN parts :
              (p \in world.bodies) <=> (p \in ObjectParts(objects[1]))
        /\ \A id \in 1..Len(heap) :
              /\ ObjectParts(id) # {}
              /\ id # objects[1] => ObjectParts(id) \cap world.bodies = {}
        /\ world.bodies \subseteq DOMAIN parts

C27_Witness ==
    /\ phase = "main"
    /\ demo.respawns >= 2
    /\ Len(heap) >= 3
    /\ heap[Len(heap)] = "hybrid"
    /\ heap[Len(heap) - 1] = "soft"
    /\ Cardinality(world.bodies) = 6

C18_Witness ==
    /\ phase = "main"
    /\ demo.respawns >= 2
    /\ obj.variant = "options"
    /\ Len(obj.shape.indices) >= 6

====
